---- MODULE Spec2Model ----
(***************************************************************************)
(* Model of the interval-notification scheduler in src/src/util/timer.cc.  *)
(*                                                                         *)
(* Threads: the worker (Timer::triggerWait / Timer::notify, including the  *)
(* listener callbacks it runs), one caller thread issuing                  *)
(* addTimerSubscriber / removeTimerSubscriber, and one thread calling      *)
(* shutdown.                                                               *)
(*                                                                         *)
(* Locks: the worker holds waitMutex for the whole of triggerWait except   *)
(* while it is blocked in wait / waitFor; no other code touches waitMutex. *)
(* The registry ("subscribers") is guarded by the thread runner's mutex    *)
(* (lockGuard / uniqueLock), modelled by mutexOwner.  The condition        *)
(* variable is waited on with waitMutex and signalled by threads that do   *)
(* not hold waitMutex.                                                     *)
(***************************************************************************)
EXTENDS Integers, Sequences, FiniteSets, TLC

\* ---- bounds of the model ------------------------------------------------
MaxTime == 3
MaxAdds == 2

\* ---- inputs ---------------------------------------------------------------
Subscribers == {"s1", "s2"}
Parameters == {"p"}
Intervals == {0, 1, 3}
WaitValues == {0, 1, 3}

NoRef == [kind |-> "none"]
NullRef == [kind |-> "null"]

VARIABLES
    now,            \* the clock read by getTimespecNow
    subscribers,    \* Timer::subscribers, a list of TimerSubscriberElement
    mutexOwner,     \* holder of the thread runner's mutex
    shutdownFlag,   \* Timer::shutdownFlag
    wpc,            \* position of the worker thread
    timeout,        \* triggerWait's "timeout" pointer
    wakeAt,         \* absolute expiry of the worker's waitFor
    it,             \* notify's list iterator
    toNotify,       \* notify's local list
    cur,            \* the element whose callback is running
    cbRes,          \* outcome of the reentrant remove of the running callback
    cpc,            \* position of the caller thread
    cargs,          \* arguments of the caller's operation in progress
    cres,           \* outcome of the caller's last operation
    spc,            \* position of the thread calling shutdown
    gen,            \* history: successful adds per identity
    addedAt,        \* history: clock value at the latest successful add
    fired,          \* history: onTimer invocations of the current subscription
    lastFire,       \* history: time of its latest onTimer invocation
    snap            \* history: successful adds seen by the latest deadline selection

vars == <<now, subscribers, mutexOwner, shutdownFlag, wpc, timeout, wakeAt, it,
          toNotify, cur, cbRes, cpc, cargs, cres, spc, gen, addedAt, fired, lastFire,
          snap>>

workerVars == <<wpc, timeout, wakeAt, it, toNotify, cur, cbRes, snap>>
callerVars == <<cpc, cargs, cres>>
histVars == <<gen, addedAt, fired, lastFire>>

Identities == Subscribers \X Parameters
NoArgs == [op |-> "none"]
NoElement == [subscriber |-> "none"]

\* ---- TimerSubscriberElement ----------------------------------------------
Identity(e) == <<e.subscriber, e.parameter>>

\* TimerSubscriberElement::operator==
ElementEq(a, b) == a.subscriber = b.subscriber /\ a.parameter = b.parameter

\* the constructor: nextNotify is set from the clock
Element(s, i, p, o, t, g) ==
    [subscriber |-> s, notifyInterval |-> i, parameter |-> p, once |-> o,
     nextNotify |-> t + i, gen |-> g]

\* TimerSubscriberElement::updateNextNotify
UpdateNextNotify(e, t) == [e EXCEPT !.nextNotify = t + e.notifyInterval]

\* getDeltaMillis(first, second)
GetDeltaMillis(first, second) == second - first

\* successful adds so far
RECURSIVE SumGen(_)
SumGen(ids) ==
    IF ids = {} THEN 0
    ELSE LET id == CHOOSE x \in ids : TRUE
         IN gen[id] + SumGen(ids \ {id})

Adds == SumGen(Identities)

\* ---- helpers over the list ------------------------------------------------
RemoveAt(s, k) == [j \in 1..(Len(s) - 1) |-> IF j < k THEN s[j] ELSE s[j + 1]]

\* std::find / std::any_of with operator==: first matching position, 0 if none
RECURSIVE FindFrom(_, _, _)
FindFrom(s, e, k) ==
    IF k > Len(s) THEN 0
    ELSE IF ElementEq(s[k], e) THEN k
    ELSE FindFrom(s, e, k + 1)

Find(s, e) == FindFrom(s, e, 1)

InRegistry(id) == \E k \in 1..Len(subscribers) : Identity(subscribers[k]) = id

\* ---- the condition variable ------------------------------------------------
Waiting == wpc \in {"idleWait", "timedWait"}

\* cond.notify_one / notify_all: the worker, if blocked, leaves its wait
\* with a status other than timeout and continues at the loop head
WakeWorker == IF wpc \in {"idleWait", "timedWait"} THEN "loop" ELSE wpc

\* ---- initial state: the Timer constructed, its thread started -------------
Init ==
    /\ now = 0
    /\ subscribers = <<>>
    /\ mutexOwner = "free"
    /\ shutdownFlag = FALSE
    /\ wpc = "loop"
    /\ timeout = NoRef
    /\ wakeAt = 0
    /\ it = 0
    /\ toNotify = <<>>
    /\ cur = NoElement
    /\ cbRes = "none"
    /\ cpc = "idle"
    /\ cargs = NoArgs
    /\ cres = "none"
    /\ spc = "idle"
    /\ gen = [id \in Identities |-> 0]
    /\ addedAt = [id \in Identities |-> 0]
    /\ fired = [id \in Identities |-> 0]
    /\ lastFire = [id \in Identities |-> -1]
    /\ snap = 0

\* ---- the clock ---------------------------------------------------------------
Tick ==
    /\ now < MaxTime
    /\ now' = now + 1
    /\ UNCHANGED <<subscribers, mutexOwner, shutdownFlag, workerVars, callerVars,
                   spc, histVars>>

\* ---- variants of the code used to test the properties below ------------------
\* addTimerSubscriber without the interval check of lines 68-69
AddCall_noCheck(s, i, p, o) ==
    /\ cpc = "idle"
    /\ Adds < MaxAdds
    /\ mutexOwner = "free"
    /\ mutexOwner' = "caller"
    /\ cpc' = "addBody"
    /\ cres' = "none"
    /\ cargs' = [op |-> "add", subscriber |-> s, notifyInterval |-> i,
                 parameter |-> p, once |-> o]
    /\ UNCHANGED <<now, subscribers, shutdownFlag, workerVars, spc, histVars>>

\* ---- Timer::addTimerSubscriber ---------------------------------------------
\* lines 67-71: the interval check, then lockGuard()
AddCall(s, i, p, o) ==
    /\ cpc = "idle"
    /\ IF i = 0
       THEN /\ cres' = "IllegalInterval"
            /\ cpc' = "return"
            /\ UNCHANGED mutexOwner
       ELSE /\ Adds < MaxAdds
            /\ mutexOwner = "free"
            /\ mutexOwner' = "caller"
            /\ cpc' = "addBody"
            /\ cres' = "none"
    /\ cargs' = [op |-> "add", subscriber |-> s, notifyInterval |-> i,
                 parameter |-> p, once |-> o]
    /\ UNCHANGED <<now, subscribers, shutdownFlag, workerVars, spc, histVars>>

\* addTimerSubscriber without the duplicate check of lines 74-79
AddBody_noDupCheck ==
    /\ cpc = "addBody"
    /\ LET id == <<cargs.subscriber, cargs.parameter>>
           element == Element(cargs.subscriber, cargs.notifyInterval,
                              cargs.parameter, cargs.once, now, gen[id] + 1)
       IN /\ subscribers' = Append(subscribers, element)
          /\ wpc' = WakeWorker
          /\ cres' = "ok"
          /\ gen' = [gen EXCEPT ![id] = gen[id] + 1]
          /\ addedAt' = [addedAt EXCEPT ![id] = now]
          /\ fired' = [fired EXCEPT ![id] = 0]
          /\ lastFire' = [lastFire EXCEPT ![id] = -1]
    /\ mutexOwner' = "free"
    /\ cpc' = "return"
    /\ cargs' = NoArgs
    /\ UNCHANGED <<now, shutdownFlag, timeout, wakeAt, it, toNotify, cur, cbRes, snap,
                   spc>>

\* addTimerSubscriber whose duplicate test of lines 74-79 also compares the
\* interval
AddBody_dupByInterval ==
    /\ cpc = "addBody"
    /\ LET id == <<cargs.subscriber, cargs.parameter>>
           element == Element(cargs.subscriber, cargs.notifyInterval,
                              cargs.parameter, cargs.once, now, gen[id] + 1)
           err == \E k \in 1..Len(subscribers) :
                      /\ ElementEq(subscribers[k], element)
                      /\ subscribers[k].notifyInterval = element.notifyInterval
       IN IF err
          THEN /\ cres' = "DuplicateSubscription"
               /\ UNCHANGED <<subscribers, wpc, histVars>>
          ELSE /\ subscribers' = Append(subscribers, element)
               /\ wpc' = WakeWorker
               /\ cres' = "ok"
               /\ gen' = [gen EXCEPT ![id] = gen[id] + 1]
               /\ addedAt' = [addedAt EXCEPT ![id] = now]
               /\ fired' = [fired EXCEPT ![id] = 0]
               /\ lastFire' = [lastFire EXCEPT ![id] = -1]
    /\ mutexOwner' = "free"
    /\ cpc' = "return"
    /\ cargs' = NoArgs
    /\ UNCHANGED <<now, shutdownFlag, timeout, wakeAt, it, toNotify, cur, cbRes, snap,
                   spc>>

\* lines 72-83: build the element, reject a duplicate, push_back, notify, unlock
AddBody ==
    /\ cpc = "addBody"
    /\ LET id == <<cargs.subscriber, cargs.parameter>>
           element == Element(cargs.subscriber, cargs.notifyInterval,
                              cargs.parameter, cargs.once, now, gen[id] + 1)
           err == Find(subscribers, element) # 0
       IN IF err
          THEN /\ cres' = "DuplicateSubscription"
               /\ UNCHANGED <<subscribers, wpc, histVars>>
          ELSE /\ subscribers' = Append(subscribers, element)
               /\ wpc' = WakeWorker
               /\ cres' = "ok"
               /\ gen' = [gen EXCEPT ![id] = gen[id] + 1]
               /\ addedAt' = [addedAt EXCEPT ![id] = now]
               /\ fired' = [fired EXCEPT ![id] = 0]
               /\ lastFire' = [lastFire EXCEPT ![id] = -1]
    /\ mutexOwner' = "free"
    /\ cpc' = "return"
    /\ cargs' = NoArgs
    /\ UNCHANGED <<now, shutdownFlag, timeout, wakeAt, it, toNotify, cur, cbRes, snap,
                   spc>>

\* ---- Timer::removeTimerSubscriber ------------------------------------------
\* lines 87-88: lockGuard()
RemoveCall(s, p, dontFail) ==
    /\ cpc = "idle"
    /\ mutexOwner = "free"
    /\ mutexOwner' = "caller"
    /\ cpc' = "removeBody"
    /\ cargs' = [op |-> "remove", subscriber |-> s, parameter |-> p,
                 dontFail |-> dontFail]
    /\ cres' = "none"
    /\ UNCHANGED <<now, subscribers, shutdownFlag, workerVars, spc, histVars>>

\* removeTimerSubscriber whose search also compares the interval, which the
\* probe element of line 90 sets to 0
RemoveResult_matchInterval(subs, s, p, dontFail) ==
    LET ks == {k \in 1..Len(subs) :
                  /\ subs[k].subscriber = s
                  /\ subs[k].parameter = p
                  /\ subs[k].notifyInterval = 0}
    IN IF ks # {}
       THEN [subs |-> RemoveAt(subs, CHOOSE k \in ks : TRUE), notified |-> TRUE,
             res |-> "ok"]
       ELSE [subs |-> subs, notified |-> FALSE,
             res |-> IF dontFail THEN "ok" ELSE "SubscriptionNotFound"]

\* removeTimerSubscriber without the dontFail test of line 99: a missing
\* record always throws
RemoveResult_ignoreDontFail(subs, s, p, dontFail) ==
    LET element == Element(s, 0, p, FALSE, 0, 0)
        k == Find(subs, element)
    IN IF k # 0
       THEN [subs |-> RemoveAt(subs, k), notified |-> TRUE, res |-> "ok"]
       ELSE [subs |-> subs, notified |-> FALSE, res |-> "SubscriptionNotFound"]

\* lines 89-101 applied to the list: the list after the call, and the outcome
RemoveResult(subs, s, p, dontFail) ==
    LET element == Element(s, 0, p, FALSE, 0, 0)
        k == Find(subs, element)
    IN IF k # 0
       THEN [subs |-> RemoveAt(subs, k), notified |-> TRUE, res |-> "ok"]
       ELSE [subs |-> subs, notified |-> FALSE,
             res |-> IF dontFail THEN "ok" ELSE "SubscriptionNotFound"]

\* removeTimerSubscriber without the notify of line 94
RemoveBody_noNotify ==
    /\ cpc = "removeBody"
    /\ LET r == RemoveResult(subscribers, cargs.subscriber, cargs.parameter,
                             cargs.dontFail)
       IN /\ subscribers' = r.subs
          /\ cres' = r.res
    /\ mutexOwner' = "free"
    /\ cpc' = "return"
    /\ cargs' = NoArgs
    /\ UNCHANGED <<now, shutdownFlag, workerVars, spc, histVars>>

RemoveBody ==
    /\ cpc = "removeBody"
    /\ LET r == RemoveResult(subscribers, cargs.subscriber, cargs.parameter,
                             cargs.dontFail)
       IN /\ subscribers' = r.subs
          /\ wpc' = IF r.notified THEN WakeWorker ELSE wpc
          /\ cres' = r.res
    /\ mutexOwner' = "free"
    /\ cpc' = "return"
    /\ cargs' = NoArgs
    /\ UNCHANGED <<now, shutdownFlag, timeout, wakeAt, it, toNotify, cur, cbRes, snap,
                   spc, histVars>>

\* the call returns or throws to the caller, which may then call again
Return ==
    /\ cpc = "return"
    /\ cpc' = "idle"
    /\ cres' = "none"
    /\ cargs' = NoArgs
    /\ UNCHANGED <<now, subscribers, mutexOwner, shutdownFlag, workerVars, spc,
                   histVars>>

\* ---- Timer::shutdown ---------------------------------------------------------
\* line 189
ShutdownSetFlag ==
    /\ spc = "idle"
    /\ shutdownFlag' = TRUE
    /\ spc' = "notifyAll"
    /\ UNCHANGED <<now, subscribers, mutexOwner, workerVars, callerVars, histVars>>

\* line 190
ShutdownNotifyAll ==
    /\ spc = "notifyAll"
    /\ wpc' = WakeWorker
    /\ spc' = "join"
    /\ UNCHANGED <<now, subscribers, mutexOwner, shutdownFlag, timeout, wakeAt, it,
                   toNotify, cur, cbRes, snap, callerVars, histVars>>

\* line 191: join returns once the worker thread has ended
ShutdownJoin ==
    /\ spc = "join"
    /\ wpc = "done"
    /\ spc' = "returned"
    /\ UNCHANGED <<now, subscribers, mutexOwner, shutdownFlag, workerVars,
                   callerVars, histVars>>

\* ---- Timer::getNextNotifyTime ------------------------------------------------
\* lines 175-184: position of the element the returned pointer refers to,
\* 0 for nullptr; best is the position chosen so far
RECURSIVE NextNotifyFrom(_, _, _)
NextNotifyFrom(subs, k, best) ==
    IF k > Len(subs) THEN best
    ELSE IF best = 0
            \/ GetDeltaMillis(subs[best].nextNotify, subs[k].nextNotify) < 0
         THEN NextNotifyFrom(subs, k + 1, k)
         ELSE NextNotifyFrom(subs, k + 1, best)

\* getNextNotifyTime without the comparison of line 179: the first element's
\* deadline is returned
GetNextNotifyTime_first(subs) == IF subs = <<>> THEN 0 ELSE 1

GetNextNotifyTime(subs) == NextNotifyFrom(subs, 1, 0)

\* the pointer handed back to triggerWait: it refers to the list node
PointerTo(subs, k) ==
    IF k = 0 THEN NullRef
    ELSE [kind |-> "ptr", id |-> Identity(subs[k]), gen |-> subs[k].gen]

\* the node a pointer refers to, if it is still in the list
Target(ref) ==
    {k \in 1..Len(subscribers) :
        /\ ref.kind = "ptr"
        /\ Identity(subscribers[k]) = ref.id
        /\ subscribers[k].gen = ref.gen}

\* ---- Timer::triggerWait ------------------------------------------------------
\* line 108: the loop condition
LoopCheck ==
    /\ wpc = "loop"
    /\ wpc' = IF shutdownFlag THEN "done" ELSE "emptyCheck"
    /\ wakeAt' = 0
    /\ snap' = 0
    /\ UNCHANGED <<now, subscribers, mutexOwner, shutdownFlag, timeout, it, toNotify,
                   cur, cbRes, callerVars, spc, histVars>>

\* line 111: subscribers.empty(), read while holding waitMutex only
EmptyCheck ==
    /\ wpc = "emptyCheck"
    /\ wpc' = IF subscribers = <<>> THEN "idleCall" ELSE "select"
    /\ UNCHANGED <<now, subscribers, mutexOwner, shutdownFlag, timeout, wakeAt, it,
                   toNotify, cur, cbRes, snap, callerVars, spc, histVars>>

\* line 113: threadRunner->wait(lock) releases waitMutex and blocks
IdleWait ==
    /\ wpc = "idleCall"
    /\ wpc' = "idleWait"
    /\ UNCHANGED <<now, subscribers, mutexOwner, shutdownFlag, timeout, wakeAt, it,
                   toNotify, cur, cbRes, snap, callerVars, spc, histVars>>

\* the condition variable may wake a waiter without any notify
SpuriousWake ==
    /\ Waiting
    /\ wpc' = "loop"
    /\ UNCHANGED <<now, subscribers, mutexOwner, shutdownFlag, timeout, wakeAt, it,
                   toNotify, cur, cbRes, snap, callerVars, spc, histVars>>

\* line 117 / 174: getNextNotifyTime takes the lock
SelectLock ==
    /\ wpc = "select"
    /\ mutexOwner = "free"
    /\ mutexOwner' = "worker"
    /\ wpc' = "selectBody"
    /\ UNCHANGED <<now, subscribers, shutdownFlag, timeout, wakeAt, it, toNotify,
                   cur, cbRes, snap, callerVars, spc, histVars>>

\* lines 175-185: the scan, the return of the pointer, the unlock
SelectBody ==
    /\ wpc = "selectBody"
    /\ timeout' = PointerTo(subscribers, GetNextNotifyTime(subscribers))
    /\ snap' = Adds
    /\ mutexOwner' = "free"
    /\ wpc' = "delta"
    /\ UNCHANGED <<now, subscribers, shutdownFlag, wakeAt, it, toNotify, cur, cbRes,
                   callerVars, spc, histVars>>

\* lines 119-123 for a computed wait: a positive wait blocks in waitFor
\* (releasing waitMutex), any other goes on to notify()
AfterDelta(wait) ==
    /\ timeout' = NoRef
    /\ IF wait > 0
       THEN /\ wpc' = "timedWait"
            /\ wakeAt' = now + wait
            /\ UNCHANGED snap
       ELSE /\ wpc' = "notify"
            /\ wakeAt' = 0
            /\ snap' = 0

\* lines 119-121: getDeltaMillis(&now, timeout).  The pointer is read after
\* getNextNotifyTime released the lock: a null pointer is dereferenced, and a
\* pointer to an erased node reads freed memory.
Delta ==
    /\ wpc = "delta"
    /\ IF timeout = NullRef
       THEN \/ /\ wpc' = "crashed"
               /\ timeout' = NoRef
               /\ UNCHANGED <<wakeAt, snap>>
            \/ \E w \in WaitValues : AfterDelta(w)
       ELSE IF Target(timeout) # {}
       THEN \E k \in Target(timeout) :
               AfterDelta(GetDeltaMillis(now, subscribers[k].nextNotify))
       ELSE \E w \in WaitValues : AfterDelta(w)
    /\ UNCHANGED <<now, subscribers, mutexOwner, shutdownFlag, it, toNotify, cur,
                   cbRes, callerVars, spc, histVars>>

\* triggerWait without the test of line 124: any return of waitFor goes on to
\* notify()
WaitTimeout_anyReturn ==
    /\ wpc = "timedWait"
    /\ wpc' = "notify"
    /\ wakeAt' = 0
    /\ snap' = 0
    /\ UNCHANGED <<now, subscribers, mutexOwner, shutdownFlag, timeout, it, toNotify,
                   cur, cbRes, callerVars, spc, histVars>>

\* lines 123-131: waitFor returns cv_status::timeout
WaitTimeout ==
    /\ wpc = "timedWait"
    /\ now >= wakeAt
    /\ wpc' = "notify"
    /\ wakeAt' = 0
    /\ snap' = 0
    /\ UNCHANGED <<now, subscribers, mutexOwner, shutdownFlag, timeout, it, toNotify,
                   cur, cbRes, callerVars, spc, histVars>>

\* ---- Timer::notify -----------------------------------------------------------
\* line 138: uniqueLock()
NotifyLock ==
    /\ wpc = "notify"
    /\ mutexOwner = "free"
    /\ mutexOwner' = "worker"
    /\ wpc' = "scan"
    /\ it' = 1
    /\ toNotify' = <<>>
    /\ UNCHANGED <<now, subscribers, shutdownFlag, timeout, wakeAt, cur, cbRes,
                   snap, callerVars, spc, histVars>>

\* notify() that leaves a dispatched repeating element with its old deadline
ScanElement_noRearm(subs, k, pending, t) ==
    LET element == subs[k]
        wait == GetDeltaMillis(t, element.nextNotify)
    IN IF wait <= 0
       THEN IF element.once
            THEN [subs |-> RemoveAt(subs, k), it |-> k,
                  toNotify |-> Append(pending, element)]
            ELSE [subs |-> subs, it |-> k + 1, toNotify |-> Append(pending, element)]
       ELSE [subs |-> subs, it |-> k + 1, toNotify |-> pending]

\* notify() that dispatches only the element getNextNotifyTime points to
ScanElement_onlySelected(subs, k, pending, t) ==
    LET element == subs[k]
        wait == GetDeltaMillis(t, element.nextNotify)
    IN IF wait <= 0 /\ k = GetNextNotifyTime(subs)
       THEN IF element.once
            THEN [subs |-> RemoveAt(subs, k), it |-> k,
                  toNotify |-> Append(pending, element)]
            ELSE [subs |-> [subs EXCEPT ![k] = UpdateNextNotify(element, t)],
                  it |-> k + 1, toNotify |-> Append(pending, element)]
       ELSE [subs |-> subs, it |-> k + 1, toNotify |-> pending]

\* notify() without the erase of line 154: a dispatched once element stays
ScanElement_keepOnce(subs, k, pending, t) ==
    LET element == subs[k]
        wait == GetDeltaMillis(t, element.nextNotify)
    IN IF wait <= 0
       THEN IF element.once
            THEN [subs |-> subs, it |-> k + 1, toNotify |-> Append(pending, element)]
            ELSE [subs |-> [subs EXCEPT ![k] = UpdateNextNotify(element, t)],
                  it |-> k + 1, toNotify |-> Append(pending, element)]
       ELSE [subs |-> subs, it |-> k + 1, toNotify |-> pending]

\* lines 145-161 for the element at the iterator: the list, the iterator and
\* the local list after one turn of the loop at clock value t
ScanElement(subs, k, pending, t) ==
    LET element == subs[k]
        wait == GetDeltaMillis(t, element.nextNotify)
    IN IF wait <= 0
       THEN IF element.once
            THEN [subs |-> RemoveAt(subs, k), it |-> k,
                  toNotify |-> Append(pending, element)]
            ELSE [subs |-> [subs EXCEPT ![k] = UpdateNextNotify(element, t)],
                  it |-> k + 1, toNotify |-> Append(pending, element)]
       ELSE [subs |-> subs, it |-> k + 1, toNotify |-> pending]

ScanStep ==
    /\ wpc = "scan"
    /\ it <= Len(subscribers)
    /\ LET r == ScanElement(subscribers, it, toNotify, now)
       IN /\ subscribers' = r.subs
          /\ it' = r.it
          /\ toNotify' = r.toNotify
    /\ UNCHANGED <<now, mutexOwner, shutdownFlag, wpc, timeout, wakeAt, cur, cbRes,
                   snap, callerVars, spc, histVars>>

\* notify() without the unlock of line 166
ScanUnlock_keepLock ==
    /\ wpc = "scan"
    /\ it > Len(subscribers)
    /\ it' = 0
    /\ wpc' = "dispatch"
    /\ UNCHANGED <<now, subscribers, mutexOwner, shutdownFlag, timeout, wakeAt,
                   toNotify, cur, cbRes, snap, callerVars, spc, histVars>>

\* line 166: lock.unlock() once the iterator reached the end
ScanUnlock ==
    /\ wpc = "scan"
    /\ it > Len(subscribers)
    /\ mutexOwner' = "free"
    /\ it' = 0
    /\ wpc' = "dispatch"
    /\ UNCHANGED <<now, subscribers, shutdownFlag, timeout, wakeAt, toNotify, cur,
                   cbRes, snap, callerVars, spc, histVars>>

\* lines 167-168: element.notify() calls the listener's onTimer
Invoke ==
    /\ wpc = "dispatch"
    /\ toNotify # <<>>
    /\ LET element == Head(toNotify)
           id == Identity(element)
       IN /\ cur' = element
          /\ IF element.gen = gen[id]
             THEN /\ fired' = [fired EXCEPT ![id] = fired[id] + 1]
                  /\ lastFire' = [lastFire EXCEPT ![id] = now]
             ELSE UNCHANGED <<fired, lastFire>>
    /\ toNotify' = Tail(toNotify)
    /\ wpc' = "callback"
    /\ UNCHANGED <<now, subscribers, mutexOwner, shutdownFlag, timeout, wakeAt, it,
                   cbRes, snap, callerVars, spc, gen, addedAt>>

\* a listener that removes its own subscription from onTimer:
\* removeTimerSubscriber(this, parameter) on the worker thread, line 88
CallbackRemoveLock ==
    /\ wpc = "callback"
    /\ cbRes = "none"
    /\ mutexOwner = "free"
    /\ mutexOwner' = "worker"
    /\ wpc' = "callbackRemove"
    /\ UNCHANGED <<now, subscribers, shutdownFlag, timeout, wakeAt, it, toNotify,
                   cur, cbRes, snap, callerVars, spc, histVars>>

\* lines 89-101 of that call; its notify() finds no waiter, the worker
\* being the caller.  With dontFail = false a missing record throws (line
\* 100); the listener modelled here catches the exception and returns.
CallbackRemoveBody ==
    /\ wpc = "callbackRemove"
    /\ LET r == RemoveResult(subscribers, cur.subscriber, cur.parameter, FALSE)
       IN /\ subscribers' = r.subs
          /\ cbRes' = r.res
    /\ mutexOwner' = "free"
    /\ wpc' = "callback"
    /\ UNCHANGED <<now, shutdownFlag, timeout, wakeAt, it, toNotify, cur,
                   snap, callerVars, spc, histVars>>

\* onTimer returns to the loop of line 167
CallbackReturn ==
    /\ wpc = "callback"
    /\ wpc' = "dispatch"
    /\ cur' = NoElement
    /\ cbRes' = "none"
    /\ UNCHANGED <<now, subscribers, mutexOwner, shutdownFlag, timeout, wakeAt, it,
                   toNotify, snap, callerVars, spc, histVars>>

\* line 170 and back to line 108
NotifyReturn ==
    /\ wpc = "dispatch"
    /\ toNotify = <<>>
    /\ wpc' = "loop"
    /\ UNCHANGED <<now, subscribers, mutexOwner, shutdownFlag, timeout, wakeAt, it,
                   toNotify, cur, cbRes, snap, callerVars, spc, histVars>>

\* ---- the system ----------------------------------------------------------------
Worker ==
    \/ LoopCheck
    \/ EmptyCheck
    \/ IdleWait
    \/ SelectLock
    \/ SelectBody
    \/ Delta
    \/ WaitTimeout
    \/ NotifyLock
    \/ ScanStep
    \/ ScanUnlock
    \/ Invoke
    \/ CallbackRemoveLock
    \/ CallbackRemoveBody
    \/ CallbackReturn
    \/ NotifyReturn

Next ==
    /\ wpc # "crashed"
    /\ \/ Tick
       \/ \E s \in Subscribers, i \in Intervals, p \in Parameters, o \in BOOLEAN :
             AddCall(s, i, p, o)
       \/ AddBody
       \/ \E s \in Subscribers, p \in Parameters, d \in BOOLEAN : RemoveCall(s, p, d)
       \/ RemoveBody
       \/ Return
       \/ ShutdownSetFlag
       \/ ShutdownNotifyAll
       \/ ShutdownJoin
       \/ SpuriousWake
       \/ Worker

Spec == Init /\ [][Next]_vars

\* the scheduling the threads rely on: the clock advances, a running thread
\* takes its next step, a thread blocked on the mutex gets it in the end.
\* New calls by the callers, shutdown and spurious wakes are not forced.
FairSpec ==
    /\ Spec
    /\ WF_vars(Tick)
    /\ SF_vars(Worker)
    /\ WF_vars(AddBody)
    /\ WF_vars(RemoveBody)
    /\ WF_vars(Return)
    /\ WF_vars(ShutdownNotifyAll)
    /\ WF_vars(ShutdownJoin)

\* ---- shorthands for the properties -------------------------------------------
\* the worker sleeps to a deadline beyond the horizon of the model's clock
BeyondHorizon == wpc = "timedWait" /\ wakeAt > MaxTime

\* the step is an onTimer invocation
InvokeStep == wpc = "dispatch" /\ wpc' = "callback"

\* the step is one turn of notify()'s loop
ScanTurn == wpc = "scan" /\ wpc' = "scan" /\ it <= Len(subscribers)
            /\ (it' # it \/ subscribers' # subscribers \/ toNotify' # toNotify)

\* ---- C1 ------------------------------------------------------------------------
\* a once subscription with a deadline within the horizon is in the registry
OnceLive(id) ==
    \E k \in 1..Len(subscribers) :
        /\ Identity(subscribers[k]) = id
        /\ subscribers[k].once
        /\ subscribers[k].nextNotify <= MaxTime

\* an invocation of a once subscription is its first and is not early
OnceAtMostOnceNotEarly ==
    (wpc = "callback" /\ cur.once /\ cur.gen = gen[Identity(cur)])
        => (fired[Identity(cur)] = 1 /\ now >= cur.nextNotify)

\* C1: a once subscription that is never removed is invoked exactly once: not
\* before its registration time plus its interval, never a second time, and,
\* while the scheduler keeps running, it is invoked.
C1_OnceFiresExactlyOnce ==
    /\ []OnceAtMostOnceNotEarly
    /\ \A id \in Identities :
          OnceLive(id) ~> (\/ fired[id] >= 1
                           \/ ~InRegistry(id)
                           \/ shutdownFlag
                           \/ wpc = "crashed"
                           \/ BeyondHorizon)

\* ---- C2 ------------------------------------------------------------------------
\* C2 as stated: two consecutive onTimer invocations of a repeating
\* subscription are at least its interval apart.
C2_InvocationsIntervalApart ==
    [][(/\ InvokeStep
        /\ ~cur'.once
        /\ cur'.gen = gen[Identity(cur')]
        /\ lastFire[Identity(cur')] >= 0)
         => now - lastFire[Identity(cur')] >= cur'.notifyInterval]_vars

\* C2 as amended: the notify pass that dispatches a repeating subscription sets
\* its deadline to the time of that pass plus the interval, and no invocation
\* happens before the deadline its element carried; the next invocation is at
\* least the interval after the previous pass, not after the previous callback.
C2_PassesIntervalApart ==
    /\ [][(ScanTurn /\ ~subscribers[it].once /\ subscribers[it].nextNotify <= now)
            => /\ it' = it + 1
               /\ Len(subscribers') = Len(subscribers)
               /\ subscribers'[it].nextNotify = now + subscribers[it].notifyInterval
               /\ toNotify' = Append(toNotify, subscribers[it])]_vars
    /\ [](wpc = "callback" => now >= cur.nextNotify)

C2_Witness ==
    /\ wpc = "callback"
    /\ ~cur.once
    /\ cur.gen = gen[Identity(cur)]
    /\ fired[Identity(cur)] >= 2
    /\ toNotify = <<>>

\* ---- C3 ------------------------------------------------------------------------
\* one turn of notify()'s loop dispatches its element iff the element is due,
\* leaves an element that is not due alone, and skips no element
PassDispatchesDue ==
    [][ScanTurn =>
         LET e == subscribers[it]
         IN IF e.nextNotify <= now
            THEN /\ toNotify' = Append(toNotify, e)
                 /\ IF e.once
                    THEN it' = it /\ subscribers' = RemoveAt(subscribers, it)
                    ELSE it' = it + 1 /\ Len(subscribers') = Len(subscribers)
            ELSE /\ toNotify' = toNotify
                 /\ subscribers' = subscribers
                 /\ it' = it + 1]_vars

\* two repeating subscriptions with intervals I and 3*I, registered at the
\* same instant, 3*I ago
ThreeToOne(a, b) ==
    /\ a \in 1..Len(subscribers)
    /\ b \in 1..Len(subscribers)
    /\ ~subscribers[a].once
    /\ ~subscribers[b].once
    /\ subscribers[b].notifyInterval = 3 * subscribers[a].notifyInterval
    /\ addedAt[Identity(subscribers[a])] = addedAt[Identity(subscribers[b])]
    /\ now - addedAt[Identity(subscribers[a])] = subscribers[b].notifyInterval

\* C3 as stated: a pass dispatches exactly the due records, and once 3*I has
\* elapsed the two subscriptions have fired 3 times and 1 time.
C3_ThreeAndOne ==
    /\ PassDispatchesDue
    /\ [](\A a, b \in 1..Len(subscribers) :
             ThreeToOne(a, b) =>
                 /\ fired[Identity(subscribers[a])] = 3
                 /\ fired[Identity(subscribers[b])] = 1)

\* C3 as amended: a pass dispatches exactly the due records; a subscription
\* has fired at most once per interval elapsed since its registration, so
\* once 3*I has elapsed the two have fired at most 3 times and at most 1 time.
C3_AtMostThreeAndOne ==
    /\ PassDispatchesDue
    /\ [](\A k \in 1..Len(subscribers) :
             fired[Identity(subscribers[k])] * subscribers[k].notifyInterval
                 <= now - addedAt[Identity(subscribers[k])])
    /\ [](\A a, b \in 1..Len(subscribers) :
             ThreeToOne(a, b) =>
                 /\ fired[Identity(subscribers[a])] <= 3
                 /\ fired[Identity(subscribers[b])] <= 1)

C3_Witness ==
    \E a, b \in 1..Len(subscribers) :
        /\ ThreeToOne(a, b)
        /\ fired[Identity(subscribers[a])] = 3
        /\ fired[Identity(subscribers[b])] = 1

\* ---- C4 ------------------------------------------------------------------------
\* C4: with a non-empty registry the worker does not stay in (or on its way
\* into) the indefinite wait.
C4_AddWakesIdleWorker ==
    (subscribers # <<>> /\ wpc \in {"idleCall", "idleWait"})
        ~> (subscribers = <<>> \/ wpc \notin {"idleCall", "idleWait"})

\* ---- C5 ------------------------------------------------------------------------
\* C5: once shutdown() has set the flag and woken the worker, its join returns.
C5_ShutdownReturns ==
    (spc = "join") ~> (spc = "returned" \/ wpc = "crashed" \/ BeyondHorizon)

\* ---- C6 ------------------------------------------------------------------------
\* C6 as stated: the remove a listener issues for its own subscription from
\* onTimer never blocks on a lock its own thread holds and never fails.
C6_ReentrantRemoveSucceeds ==
    /\ (wpc = "callback" => mutexOwner # "worker")
    /\ cbRes # "SubscriptionNotFound"

\* C6 as amended: that remove never blocks on a lock its own thread holds; it
\* succeeds, deleting the record, iff a record of that identity is in the
\* registry, and fails with SubscriptionNotFound otherwise; the record of a
\* once subscription is never in the registry while its callback runs.
C6_ReentrantRemove ==
    /\ [](wpc = "callback" => mutexOwner # "worker")
    /\ [](wpc \in {"callback", "callbackRemove"} /\ cur.once
             => \A k \in 1..Len(subscribers) :
                    ~(Identity(subscribers[k]) = Identity(cur)
                      /\ subscribers[k].gen = cur.gen))
    /\ [][(wpc = "callbackRemove" /\ wpc' = "callback")
            => IF InRegistry(Identity(cur))
               THEN /\ cbRes' = "ok"
                    /\ Len(subscribers') = Len(subscribers) - 1
                    /\ ~InRegistry(Identity(cur))'
               ELSE /\ cbRes' = "SubscriptionNotFound"
                    /\ subscribers' = subscribers]_vars

C6_Witness == wpc = "callback" /\ cbRes = "ok" /\ ~cur.once

\* ---- C7 ------------------------------------------------------------------------
\* C7: while onTimer runs, the worker does not hold the registry's mutex
\* (unless the callback itself took it for its own remove).
C7_NoLockDuringCallback == wpc = "callback" => mutexOwner # "worker"

C7_Witness == wpc = "callback" /\ cbRes = "ok" /\ cpc = "addBody"

\* ---- C8 ------------------------------------------------------------------------
\* C8: a timed sleep computed from a registry snapshot that misses a successful
\* add does not go on, so no record waits for a wake later than its deadline
\* because of it.
C8_NoStaleSleep ==
    (wpc = "timedWait" /\ snap < Adds)
        => \A k \in 1..Len(subscribers) : wakeAt <= subscribers[k].nextNotify

\* ---- C9 ------------------------------------------------------------------------
\* C9: add with interval 0 fails with IllegalInterval without touching the
\* registry, the lock or the worker; every record has a positive interval.
C9_IllegalInterval ==
    /\ [](\A k \in 1..Len(subscribers) : subscribers[k].notifyInterval > 0)
    /\ []((cargs.op = "add" /\ cargs.notifyInterval = 0)
             => (cpc = "return" /\ cres = "IllegalInterval"))
    /\ [][(cpc = "idle" /\ cargs'.op = "add" /\ cargs'.notifyInterval = 0)
            => /\ subscribers' = subscribers
               /\ wpc' = wpc
               /\ mutexOwner' = mutexOwner]_vars

C9_Witness == cres = "IllegalInterval" /\ subscribers # <<>> /\ Waiting

\* ---- C10 -----------------------------------------------------------------------
\* C10: add of an identity that is in the registry fails with
\* DuplicateSubscription, whatever interval and once flag it passes, and
\* leaves the registry and the worker as they were.
C10_DuplicateRejected ==
    [][(cpc = "addBody" /\ cpc' = "return"
        /\ InRegistry(<<cargs.subscriber, cargs.parameter>>))
         => /\ cres' = "DuplicateSubscription"
            /\ subscribers' = subscribers
            /\ wpc' = wpc]_vars

C10_Witness == cres = "DuplicateSubscription" /\ cpc = "return" /\ Waiting

\* ---- C11 -----------------------------------------------------------------------
\* the step is the body of a caller's removeTimerSubscriber
RemoveStep == cpc = "removeBody" /\ cpc' = "return"

\* C11: remove of an identity that is not in the registry (the empty registry
\* included) fails with SubscriptionNotFound when dontFail is false and
\* succeeds when it is true; the registry is unchanged and the worker is not
\* woken.
C11_RemoveMissing ==
    [][(RemoveStep /\ ~InRegistry(<<cargs.subscriber, cargs.parameter>>))
         => /\ cres' = IF cargs.dontFail THEN "ok" ELSE "SubscriptionNotFound"
            /\ subscribers' = subscribers
            /\ wpc' = wpc]_vars

C11_Witness ==
    /\ cpc = "return"
    /\ cres = "SubscriptionNotFound"
    /\ subscribers # <<>>
    /\ wpc = "timedWait"

\* ---- C12 -----------------------------------------------------------------------
\* C12: remove of an identity that is in the registry succeeds whatever
\* interval and once flag its record has, deletes that record and no other,
\* leaves the others as they were, and notifies the condition variable: a
\* worker blocked in wait or waitFor goes back to the top of its loop.
C12_RemoveDeletesAndWakes ==
    [][(RemoveStep /\ InRegistry(<<cargs.subscriber, cargs.parameter>>))
         => /\ cres' = "ok"
            /\ \E k \in 1..Len(subscribers) :
                  /\ Identity(subscribers[k]) = <<cargs.subscriber, cargs.parameter>>
                  /\ Len(subscribers') = Len(subscribers) - 1
                  /\ \A j \in 1..Len(subscribers') :
                        subscribers'[j] = subscribers[IF j < k THEN j ELSE j + 1]
            /\ \A j \in 1..Len(subscribers') :
                  Identity(subscribers'[j]) # <<cargs.subscriber, cargs.parameter>>
            /\ wpc' = IF Waiting THEN "loop" ELSE wpc]_vars

\* s1 was added after s2, neither has fired, and the caller's successful
\* call has just taken s1 out and woken the worker from its timed wait
C12_Witness ==
    /\ cpc = "return"
    /\ cres = "ok"
    /\ gen[<<"s1", "p">>] = 1
    /\ gen[<<"s2", "p">>] = 1
    /\ fired[<<"s1", "p">>] = 0
    /\ fired[<<"s2", "p">>] = 0
    /\ addedAt[<<"s1", "p">>] > addedAt[<<"s2", "p">>]
    /\ ~InRegistry(<<"s1", "p">>)
    /\ InRegistry(<<"s2", "p">>)
    /\ wpc = "loop"
    /\ wakeAt > 0

\* ---- C13 -----------------------------------------------------------------------
\* C13: in every reachable state no two records of the registry have the same
\* (subscriber, parameter) identity.
C13_UniqueIdentity ==
    \A a, b \in 1..Len(subscribers) :
        Identity(subscribers[a]) = Identity(subscribers[b]) => a = b

\* two records are in the registry, one of them rearmed by an earlier notify
\* pass, while the worker's next pass has reached the second of them
C13_Witness ==
    /\ Len(subscribers) = 2
    /\ \E k \in 1..2 : fired[Identity(subscribers[k])] >= 1
    /\ wpc = "scan"
    /\ it = 2

\* ---- C14 -----------------------------------------------------------------------
\* the worker is at a read or write of the list: subscribers.empty() of line
\* 111, the scan of getNextNotifyTime, the loop of notify(), the erase of a
\* remove made from a callback
WorkerAtRegistry == wpc \in {"emptyCheck", "selectBody", "scan", "callbackRemove"}

\* a caller is at its read and write of the list
CallerAtRegistry == cpc \in {"addBody", "removeBody"}

\* C14: every access to the registry, by the worker and by a caller, is made
\* by the holder of the one registry mutex, so a caller is never inside add
\* or remove while the worker is at a read of the list.
C14_RegistryUnderOneMutex ==
    /\ ~(WorkerAtRegistry /\ CallerAtRegistry)
    /\ WorkerAtRegistry => mutexOwner = "worker"
    /\ CallerAtRegistry => mutexOwner = "caller"

\* ---- C15 -----------------------------------------------------------------------
\* C15: the worker enters notify() only from the computation of a wait that
\* is not positive or from a timed wait whose time has run out; a wait ended
\* by a notify or spuriously takes the worker to the top of the loop, from
\* where notify() is reached only through a new getNextNotifyTime; every
\* element put on the dispatch list, and every element whose callback runs,
\* is due.
C15_DispatchOnlyWhenDue ==
    /\ [][(wpc # "notify" /\ wpc' = "notify")
            => \/ /\ wpc = "delta"
                  /\ \A k \in Target(timeout) : subscribers[k].nextNotify <= now
               \/ /\ wpc = "timedWait"
                  /\ now >= wakeAt]_vars
    /\ [][(Waiting /\ wpc' # wpc) => wpc' \in {"loop", "notify"}]_vars
    /\ [][(wpc # "timedWait" /\ wpc' = "timedWait") => wpc = "delta"]_vars
    /\ [][(wpc # "delta" /\ wpc' = "delta") => wpc = "selectBody"]_vars
    /\ [](\A k \in 1..Len(toNotify) : toNotify[k].nextNotify <= now)
    /\ [][InvokeStep => cur'.nextNotify <= now]_vars

\* a caller's successful add or remove has ended the worker's timed wait
\* before its time: the worker is at the top of the loop, nothing is on the
\* dispatch list
C15_Witness ==
    /\ wpc = "loop"
    /\ wakeAt > now
    /\ cpc = "return"
    /\ cres = "ok"
    /\ subscribers # <<>>
    /\ toNotify = <<>>

\* ---- C16 -----------------------------------------------------------------------
\* C16: notify() goes through the registry holding the lock and with no
\* callback running.  The turn for a record that is due at that moment takes
\* it out if it is once, and otherwise sets its nextNotify to now plus its
\* interval and changes nothing else of it; the turn for a record that is not
\* due changes nothing; no turn touches another record or adds one; callbacks
\* start only after the lock is released at the end of the list.
C16_PassUpdatesRegistry ==
    /\ [](wpc = "scan" => (mutexOwner = "worker" /\ cur = NoElement))
    /\ [][ScanTurn =>
            LET e == subscribers[it]
                others == [j \in 1..(Len(subscribers) - 1) |->
                              subscribers[IF j < it THEN j ELSE j + 1]]
            IN IF e.nextNotify > now
               THEN subscribers' = subscribers
               ELSE IF e.once
               THEN subscribers' = others
               ELSE /\ Len(subscribers') = Len(subscribers)
                    /\ subscribers'[it] = [e EXCEPT !.nextNotify = now + e.notifyInterval]
                    /\ \A j \in 1..Len(subscribers) :
                          j # it => subscribers'[j] = subscribers[j]]_vars
    /\ [][(wpc = "scan" /\ wpc' # "scan")
            => /\ it > Len(subscribers)
               /\ wpc' = "dispatch"
               /\ mutexOwner' = "free"
               /\ subscribers' = subscribers]_vars
    /\ [][InvokeStep => mutexOwner # "worker"]_vars

\* the pass has reached the end of the list having taken out a due once
\* record and rearmed a due repeating one
C16_Witness ==
    /\ wpc = "scan"
    /\ it > Len(subscribers)
    /\ Len(subscribers) = 1
    /\ Len(toNotify) = 2
    /\ \E a, b \in 1..2 : toNotify[a].once /\ ~toNotify[b].once
    /\ subscribers[1].nextNotify = now + subscribers[1].notifyInterval

\* ---- C17 -----------------------------------------------------------------------
\* the step is the body of getNextNotifyTime, from the lock to the return
SelectStep == wpc = "selectBody" /\ wpc' = "delta"

\* C17: getNextNotifyTime returns nullptr for an empty registry and otherwise
\* a pointer to the nextNotify of a record of the registry that is not later
\* than the nextNotify of any record; it leaves the registry as it was.
C17_SelectorReturnsMinimum ==
    [][SelectStep =>
         /\ subscribers' = subscribers
         /\ IF subscribers = <<>>
            THEN timeout' = NullRef
            ELSE /\ timeout' # NullRef
                 /\ \E k \in 1..Len(subscribers) :
                       /\ timeout' = PointerTo(subscribers, k)
                       /\ \A j \in 1..Len(subscribers) :
                             subscribers[k].nextNotify <= subscribers[j].nextNotify]_vars

\* the selector has returned the second record's deadline, which is the
\* earlier of the two
C17_Witness ==
    /\ wpc = "delta"
    /\ Len(subscribers) = 2
    /\ timeout = PointerTo(subscribers, 2)
    /\ subscribers[2].nextNotify < subscribers[1].nextNotify
    /\ snap = Adds
    /\ cpc = "idle"

\* ---- C18 -----------------------------------------------------------------------
\* C18: once shutdownFlag is set the worker enters no wait and no notify();
\* a notify() in progress is carried through: the worker ends only from the
\* loop condition, with nothing left on the dispatch list.
C18_NoNewCycleAfterShutdown ==
    /\ [][shutdownFlag =>
            /\ (wpc # "idleWait" => wpc' # "idleWait")
            /\ (wpc # "timedWait" => wpc' # "timedWait")
            /\ (wpc # "notify" => wpc' # "notify")]_vars
    /\ [][(wpc # "done" /\ wpc' = "done")
            => (wpc = "loop" /\ toNotify = <<>> /\ cur = NoElement)]_vars

\* ---- C19 -----------------------------------------------------------------------
\* C19: a subscription that a caller's removeTimerSubscriber has taken out,
\* the call having returned, gets no onTimer unless it is added again.  A
\* repeating record leaves the registry only through a remove, and the only
\* remove made from a callback is for the subscription being called, so the
\* repeating element of the latest add that is invoked is in the registry.
C19_NoCallbackAfterRemove ==
    [][(/\ InvokeStep
        /\ cpc = "idle"
        /\ ~cur'.once
        /\ cur'.gen = gen[Identity(cur')])
         => InRegistry(Identity(cur'))]_vars

\* ---- C20 -----------------------------------------------------------------------
\* C20: when the worker reads the deadline through the pointer that
\* getNextNotifyTime returned, the record the pointer refers to is in the
\* registry.
C20_DeadlineRecordAlive ==
    (wpc = "delta" /\ timeout # NullRef) => Target(timeout) # {}

====
